---- MODULE Spec2Model ----
(***************************************************************************)
(* server/etcdutil/get_leader.go                                           *)
(*                                                                         *)
(*   type EtcdLeaderGetter interface { EtcdLeaderID() (uint64, error) }    *)
(*   type LeaderGetterWrapper struct { Server *etcdserver.EtcdServer }     *)
(*   func (w *LeaderGetterWrapper) EtcdLeaderID() (uint64, error) {        *)
(*       return w.Server.Lead(), nil                                       *)
(*   }                                                                     *)
(*                                                                         *)
(* One LeaderGetterWrapper, the embedded engine it references, and a set   *)
(* of goroutines calling EtcdLeaderID on the wrapper.  A call is three     *)
(* steps:                                                                  *)
(* the invocation, the read of the engine's leader field (Server.Lead())   *)
(* and the return of (value, nil); engine steps and other callers' steps   *)
(* interleave freely with them.                                            *)
(***************************************************************************)
EXTENDS Naturals, Sequences

\* ------------------------------------------------------------- bounds
\* node identifiers are 0..MaxId (uint64 in the code; the value is only copied)
MaxId == 1
\* goroutines calling EtcdLeaderID
NumCallers == 2
\* calls to EtcdLeaderID made by all goroutines together
MaxCalls == 2
\* changes of the leader field applied by the engine
MaxUpdates == 2

\* ------------------------------------------------------------- constants
\* the engine's "no leader" value of the leader field
None == 0

NodeIds == 0 .. MaxId
Callers == 1 .. NumCallers
\* the embedded engine (one *etcdserver.EtcdServer)
Engines == {"srv"}
\* the error component of a result: nil, or one of the conditions a
\* fallible leader query would report
Nil == "nil"
NO_LEADER_KNOWN == "NO_LEADER_KNOWN"
ENGINE_UNAVAILABLE == "ENGINE_UNAVAILABLE"

VARIABLES
    Server,   \* LeaderGetterWrapper.Server: the engine the wrapper references
    status,   \* per engine: "new" (constructed, not started), "running", "stopped"
    lead,     \* per engine: its leader field
    hist,     \* per engine: every value the leader field has held (not program state)
    pc,       \* per caller: "idle", "invoked" (in EtcdLeaderID, before the read),
              \*             "loaded" (Server.Lead() evaluated, not yet returned)
    reg,      \* per caller: the value Server.Lead() evaluated to
    cur,      \* per caller: bookkeeping of the call in flight (not program state)
    log       \* per caller: the results of its completed calls, oldest first

engineVars == <<status, lead, hist>>
callVars == <<pc, reg, cur, log>>
vars == <<Server, status, lead, hist, pc, reg, cur, log>>

\* number of changes engine e has applied to its leader field
Ver(e) == Len(hist[e]) - 1

\* the value engine e's leader field held after its k-th change
FieldAt(e, k) == hist[e][k + 1]

\* calls made so far by the goroutines of S, completed or in flight
RECURSIVE Calls(_)
Calls(S) == IF S = {} THEN 0
            ELSE LET c == CHOOSE x \in S : TRUE
                 IN Len(log[c]) + (IF pc[c] = "idle" THEN 0 ELSE 1) + Calls(S \ {c})

\* the goroutines inside EtcdLeaderID
InFlight == {c \in Callers : pc[c] # "idle"}

NoCall == [inv |-> 0, ov |-> FALSE, q |-> TRUE]

Init ==
    /\ Server \in Engines
    /\ status = [e \in Engines |-> "new"]
    /\ lead = [e \in Engines |-> None]
    /\ hist = [e \in Engines |-> <<None>>]
    /\ pc = [c \in Callers |-> "idle"]
    /\ reg = [c \in Callers |-> 0]
    /\ cur = [c \in Callers |-> NoCall]
    /\ log = [c \in Callers |-> <<>>]

\* ------------------------------------------------------------- the engine
\* (etcdserver.EtcdServer: its own activity, independent of the wrapper)

Start(e) ==
    /\ status[e] = "new"
    /\ status' = [status EXCEPT ![e] = "running"]
    /\ UNCHANGED <<Server, lead, hist, callVars>>

\* the engine learns of a leader, or (v = None) loses it in an election;
\* a store of the value the field already holds is not a change
SetLead(e, v) ==
    /\ status[e] = "running"
    /\ Ver(e) < MaxUpdates
    /\ v # lead[e]
    /\ lead' = [lead EXCEPT ![e] = v]
    /\ hist' = [hist EXCEPT ![e] = Append(@, v)]
    /\ UNCHANGED <<Server, status, callVars>>

Stop(e) ==
    /\ status[e] = "running"
    /\ status' = [status EXCEPT ![e] = "stopped"]
    /\ UNCHANGED <<Server, lead, hist, callVars>>

\* ------------------------------------------------------------- the wrapper

\* --- variants of Lead with a defect, used to test the properties below
\* the value the field held before its latest change
LeadPrevious(s) == FieldAt(s, IF Ver(s) > 0 THEN Ver(s) - 1 ELSE 0)
\* a value that depends on how many calls were made
LeadAdvancing(s) == (lead[s] + Calls(Callers)) % (MaxId + 1)
\* the value the first completed call of goroutine 1 returned, once there is one
LeadCached(s) == IF log[1] # <<>> THEN log[1][1].id ELSE lead[s]

\* Server.Lead(): the engine's leader field, whatever the engine's status
Lead(s) == lead[s]

\* --- variants of the returned pair with a defect
\* the zero value instead of the value read
ResultZeroValue(v) == [id |-> 0, err |-> Nil]
\* an error when the value read is the "no leader" value
ResultNoLeaderError(v) ==
    IF v = None THEN [id |-> 0, err |-> NO_LEADER_KNOWN] ELSE [id |-> v, err |-> Nil]

\* `return w.Server.Lead(), nil`: the pair handed to the caller
EtcdLeaderIDResult(v) == [id |-> v, err |-> Nil]

\* A goroutine calls w.EtcdLeaderID().  Goroutines are numbered in the order
\* of their first call.  The bookkeeping notes the engine's change count at
\* the invocation and whether the call overlaps another one.
Invoke(c) ==
    /\ pc[c] = "idle"
    /\ Calls(Callers) < MaxCalls
    /\ IF c = 1 THEN TRUE ELSE Calls({c - 1}) > 0
    /\ pc' = [pc EXCEPT ![c] = "invoked"]
    /\ cur' = [d \in Callers |->
                 IF d = c THEN [inv |-> Ver(Server), ov |-> InFlight # {}, q |-> TRUE]
                 ELSE IF d \in InFlight THEN [cur[d] EXCEPT !.ov = TRUE]
                 ELSE cur[d]]
    /\ UNCHANGED <<Server, engineVars, reg, log>>

\* --- variants of Load with a defect
\* a read that yields 0 when another call is in flight
LoadRacy(c) ==
    /\ pc[c] = "invoked"
    /\ pc' = [pc EXCEPT ![c] = "loaded"]
    /\ reg' = [reg EXCEPT ![c] = IF InFlight \ {c} # {} THEN 0 ELSE lead[Server]]
    /\ cur' = [cur EXCEPT ![c].q = (status[Server] = "running")]
    /\ UNCHANGED <<Server, engineVars, log>>
\* a read that makes the engine drop its leader
LoadCampaigns(c) ==
    /\ pc[c] = "invoked"
    /\ pc' = [pc EXCEPT ![c] = "loaded"]
    /\ reg' = [reg EXCEPT ![c] = lead[Server]]
    /\ cur' = [cur EXCEPT ![c].q = (status[Server] = "running")]
    /\ lead' = [lead EXCEPT ![Server] = None]
    /\ hist' = [hist EXCEPT ![Server] = Append(@, None)]
    /\ UNCHANGED <<Server, status, log>>
\* a read that waits until the engine knows a leader
LoadWaitsForLeader(c) ==
    /\ pc[c] = "invoked"
    /\ lead[Server] # None
    /\ pc' = [pc EXCEPT ![c] = "loaded"]
    /\ reg' = [reg EXCEPT ![c] = lead[Server]]
    /\ cur' = [cur EXCEPT ![c].q = (status[Server] = "running")]
    /\ UNCHANGED <<Server, engineVars, log>>

\* the operand w.Server.Lead() is evaluated; the bookkeeping notes whether
\* the engine was running at that moment
Load(c) ==
    /\ pc[c] = "invoked"
    /\ pc' = [pc EXCEPT ![c] = "loaded"]
    /\ reg' = [reg EXCEPT ![c] = Lead(Server)]
    /\ cur' = [cur EXCEPT ![c].q = (status[Server] = "running")]
    /\ UNCHANGED <<Server, engineVars, log>>

\* the call returns (value, nil) to its caller
Return(c) ==
    /\ pc[c] = "loaded"
    /\ pc' = [pc EXCEPT ![c] = "idle"]
    /\ log' = [log EXCEPT ![c] = Append(@,
                  [id |-> EtcdLeaderIDResult(reg[c]).id,
                   err |-> EtcdLeaderIDResult(reg[c]).err,
                   inv |-> cur[c].inv, ret |-> Ver(Server), ov |-> cur[c].ov])]
    /\ reg' = [reg EXCEPT ![c] = 0]
    /\ cur' = [cur EXCEPT ![c] = NoCall]
    /\ UNCHANGED <<Server, engineVars>>

EngineStep == \E e \in Engines :
    \/ Start(e)
    \/ Stop(e)
    \/ \E v \in NodeIds : SetLead(e, v)

CallStep == \E c \in Callers :
    \/ Invoke(c)
    \/ Load(c)
    \/ Return(c)

Next == EngineStep \/ CallStep

Spec == Init /\ [][Next]_vars

\* the goroutine scheduler runs every goroutine that can run; nothing is
\* assumed of the engine
FairSpec == Spec /\ \A c \in Callers : WF_vars(Load(c)) /\ WF_vars(Return(c))

TypeOK ==
    /\ Server \in Engines
    /\ \A e \in Engines : /\ status[e] \in {"new", "running", "stopped"}
                          /\ lead[e] \in NodeIds
                          /\ lead[e] = FieldAt(e, Ver(e))
    /\ \A c \in Callers : pc[c] \in {"idle", "invoked", "loaded"}
\* ------------------------------------------------------------- properties

Last(s) == s[Len(s)]
Idx(c) == 1 .. Len(log[c])
\* no change of the leader field between the call's invocation and its return
Stable(r) == r.inv = r.ret
\* the values the leader field held between the call's invocation and its return
Window(r) == {FieldAt(Server, k) : k \in r.inv .. r.ret}

\* C1: a call made while the leader field stays L returns exactly (L, nil),
\* for every L of the identifier range (0 included).
C1_ReturnsLeader ==
    \A c \in Callers : \A i \in Idx(c) :
        Stable(log[c][i]) =>
            /\ log[c][i].id = FieldAt(Server, log[c][i].ret)
            /\ log[c][i].err = Nil

C1_Witness ==
    \E c \in Callers : \E i \in Idx(c) :
        /\ Stable(log[c][i])
        /\ FieldAt(Server, log[c][i].ret) = MaxId
        /\ log[c][i].id = MaxId
        /\ log[c][i].err = Nil

\* C2: a call made while the leader field holds the "no leader" value returns
\* the error NO_LEADER_KNOWN (never the zero identifier with a nil error).
C2_NoLeaderIsError ==
    \A c \in Callers : \A i \in Idx(c) :
        (Stable(log[c][i]) /\ FieldAt(Server, log[c][i].ret) = None) =>
            log[c][i].err = NO_LEADER_KNOWN

\* C3: calls of different goroutines that overlap other calls, all made while
\* the leader field is stable at L, return the same result (L, nil).
C3_ConcurrentCallsAgree ==
    \A c1 \in Callers : \A c2 \in Callers \ {c1} :
        \A i \in Idx(c1) : \A j \in Idx(c2) :
            ( /\ log[c1][i].ov /\ log[c2][j].ov
              /\ Stable(log[c1][i]) /\ Stable(log[c2][j])
              /\ log[c1][i].ret = log[c2][j].ret ) =>
                /\ log[c1][i].id = log[c2][j].id
                /\ log[c1][i].id = FieldAt(Server, log[c1][i].ret)
                /\ log[c1][i].err = Nil
                /\ log[c2][j].err = Nil

C3_Witness ==
    \E c1 \in Callers : \E c2 \in Callers \ {c1} :
        \E i \in Idx(c1) : \E j \in Idx(c2) :
            /\ log[c1][i].ov /\ log[c2][j].ov
            /\ Stable(log[c1][i]) /\ Stable(log[c2][j])
            /\ log[c1][i].ret = log[c2][j].ret
            /\ log[c1][i].id = MaxId /\ log[c2][j].id = MaxId

\* C4: no step of a call (invocation, read, return) changes the engine's
\* status, its leader field or its history, nor the wrapper's Server field.
C4_CallsLeaveEngineAlone ==
    [][CallStep => UNCHANGED <<Server, status, lead, hist>>]_vars

C4_Witness ==
    /\ Calls(Callers) = MaxCalls
    /\ InFlight = {}
    /\ status[Server] = "running"
    /\ lead[Server] = MaxId

\* C5 (as stated): the identifier a call returns is the value the leader
\* field holds when the call returns, i.e. it was not overwritten by a change
\* the engine applied before the call returned.
C5_NotOverwrittenAtReturn ==
    \A c \in Callers : \A i \in Idx(c) :
        log[c][i].id = FieldAt(Server, log[c][i].ret)

\* C5 (amended): the identifier a call returns is a value the leader field
\* held at or after the last change the engine applied before the call was
\* invoked, i.e. it was not overwritten before the call began.
C5_NotOverwrittenAtInvocation ==
    \A c \in Callers : \A i \in Idx(c) :
        \E k \in log[c][i].inv .. log[c][i].ret :
            log[c][i].id = FieldAt(Server, k)

C5_Witness ==
    \E c \in Callers : \E i \in Idx(c) :
        /\ log[c][i].inv < log[c][i].ret
        /\ log[c][i].id # FieldAt(Server, log[c][i].ret)
        /\ log[c][i].id = FieldAt(Server, log[c][i].inv)

\* C6: a call whose read finds the engine not running (not started, or
\* stopped) returns the error ENGINE_UNAVAILABLE.
C6_UnavailableIsError ==
    [][\A c \in Callers :
          (Return(c) /\ ~cur[c].q) => Last(log'[c]).err = ENGINE_UNAVAILABLE]_vars

\* C7: when a goroutine's call returns and the leader field has not changed
\* since its previous call was invoked, the call returns what the previous
\* call returned, and the return leaves the engine as it was.
C7_Idempotent ==
    [][\A c \in Callers :
          (Return(c) /\ log[c] # <<>> /\ Last(log[c]).inv = Ver(Server)) =>
              /\ Last(log'[c]).id = Last(log[c]).id
              /\ Last(log'[c]).err = Last(log[c]).err
              /\ UNCHANGED <<Server, status, lead, hist>>]_vars

C7_Witness ==
    \E c \in Callers :
        /\ Len(log[c]) >= 2
        /\ log[c][1].inv = log[c][2].ret
        /\ log[c][1].id = MaxId
        /\ log[c][2].id = MaxId

\* C8: under weak fairness of the caller's own steps only, every invoked call
\* returns, whatever the engine does or fails to do.
C8_EveryCallReturns ==
    \A c \in Callers : (pc[c] = "invoked") ~> (pc[c] = "idle")

\* a call has returned although the engine was never started and knows no leader
C8_Witness ==
    \E c \in Callers :
        /\ log[c] # <<>>
        /\ status[Server] = "new"
        /\ lead[Server] = None

\* C9: a call that is not a goroutine's first and is made while the leader
\* field is stable returns the field's value, whatever the goroutine's earlier
\* calls returned.
C9_NoCaching ==
    \A c \in Callers : \A i \in Idx(c) : \A j \in Idx(c) :
        (i < j /\ Stable(log[c][j])) =>
            log[c][j].id = FieldAt(Server, log[c][j].ret)

C9_Witness ==
    \E c \in Callers : \E i \in Idx(c) : \E j \in Idx(c) :
        /\ i < j
        /\ log[c][i].ret < log[c][j].inv
        /\ Stable(log[c][j])
        /\ log[c][i].id # log[c][j].id
        /\ log[c][j].id = FieldAt(Server, log[c][j].ret)

\* C10: the identifier a call returns is a value the leader field held
\* between the call's invocation and its return, the value read by a call in
\* flight is one the field held since the invocation, and the error is nil.
C10_ValueFromCallWindow ==
    /\ \A c \in Callers : \A i \in Idx(c) :
           /\ log[c][i].id \in Window(log[c][i])
           /\ log[c][i].err = Nil
    /\ \A c \in Callers :
           pc[c] = "loaded" =>
               reg[c] \in {FieldAt(Server, k) : k \in cur[c].inv .. Ver(Server)}

C10_Witness ==
    \E c \in Callers : \E i \in Idx(c) :
        /\ log[c][i].inv < log[c][i].ret
        /\ log[c][i].id = FieldAt(Server, log[c][i].ret)
        /\ log[c][i].id # FieldAt(Server, log[c][i].inv)
        /\ log[c][i].err = Nil
====
